---- MODULE Spec2Model ----
(***************************************************************************)
(* PositionState::update of programs/core/src/states/position.rs.          *)
(*                                                                         *)
(* The record's five u64 fields are modelled at their full 64-bit width.   *)
(* A u64 is a little-endian sequence of U64Limbs limbs in base LimbBase    *)
(* (its eight bytes), because the model checker's own integers are 32 bits *)
(* wide; the 128-bit intermediate of mul_div_floor is a longer sequence of *)
(* the same limbs.  An i64 is a sign and a magnitude.                      *)
(***************************************************************************)
EXTENDS Integers, Sequences, FiniteSets, TLC

\* ------------------------------------------------------------------------
\* Fixed-width unsigned integers
\* ------------------------------------------------------------------------

\* bits of a limb: one limb is one byte
LimbBits == 8

LimbBase == 2 ^ LimbBits

\* bits of a u64, the type of the record's five numeric fields
U64Bits == 64

U64Limbs == U64Bits \div LimbBits

\* fixed_point_32::Q32 is 2^Q32Bits: a division by it drops whole limbs
Q32Bits == 32

Q32Limbs == Q32Bits \div LimbBits

Max(x, y) == IF x >= y THEN x ELSE y

Limb(a, i) == IF i <= Len(a) THEN a[i] ELSE 0

\* the low n limbs of a: a mod LimbBase^n
Trunc(a, n) == [i \in 1..n |-> Limb(a, i)]

IsZero(a) == \A i \in 1..Len(a) : a[i] = 0

\* a < 2^64
FitsU64(a) == \A i \in 1..Len(a) : i > U64Limbs => a[i] = 0

BigEq(a, b) == \A i \in 1..Max(Len(a), Len(b)) : Limb(a, i) = Limb(b, i)

RECURSIVE LessFrom(_, _, _)
LessFrom(a, b, i) ==
    IF i = 0 THEN FALSE
    ELSE IF Limb(a, i) < Limb(b, i) THEN TRUE
    ELSE IF Limb(a, i) > Limb(b, i) THEN FALSE
    ELSE LessFrom(a, b, i - 1)

BigLess(a, b) == LessFrom(a, b, Max(Len(a), Len(b)))

BigLeq(a, b) == ~BigLess(b, a)

RECURSIVE AddFrom(_, _, _, _, _)
AddFrom(a, b, i, n, c) ==
    IF i > n THEN <<c>>
    ELSE LET s == Limb(a, i) + Limb(b, i) + c
         IN  <<s % LimbBase>> \o AddFrom(a, b, i + 1, n, s \div LimbBase)

\* a + b, exact (one limb longer than the longer operand)
BigAdd(a, b) == AddFrom(a, b, 1, Max(Len(a), Len(b)), 0)

RECURSIVE SubFrom(_, _, _, _, _)
SubFrom(a, b, i, n, br) ==
    IF i > n THEN <<>>
    ELSE LET d == Limb(a, i) - Limb(b, i) - br
         IN  <<(d + LimbBase) % LimbBase>>
                 \o SubFrom(a, b, i + 1, n, IF d < 0 THEN 1 ELSE 0)

\* (a - b) mod LimbBase^n
BigSubMod(a, b, n) == SubFrom(a, b, 1, n, 0)

RECURSIVE MulLimbFrom(_, _, _, _)
MulLimbFrom(a, d, i, c) ==
    IF i > Len(a) THEN <<c>>
    ELSE LET p == a[i] * d + c
         IN  <<p % LimbBase>> \o MulLimbFrom(a, d, i + 1, p \div LimbBase)

RECURSIVE BigMul(_, _)
\* a * b, exact (schoolbook, one limb of a at a time)
BigMul(a, b) ==
    IF Len(a) = 0 THEN <<>>
    ELSE IF a[1] = 0 THEN <<0>> \o BigMul(SubSeq(a, 2, Len(a)), b)
    ELSE BigAdd(MulLimbFrom(b, a[1], 1, 0),
                <<0>> \o BigMul(SubSeq(a, 2, Len(a)), b))

\* floor(a / 2^32)
DivQ32(a) == SubSeq(a, Q32Limbs + 1, Len(a))

RECURSIVE LimbsOf(_, _)
LimbsOf(n, k) ==
    IF k = 0 THEN <<>> ELSE <<n % LimbBase>> \o LimbsOf(n \div LimbBase, k - 1)

\* the u64 of a small natural number
U64(n) == LimbsOf(n, U64Limbs)

\* 2^k as a u64, k < 64
Pow2(k) ==
    [i \in 1..U64Limbs |->
        IF i = (k \div LimbBits) + 1 THEN 2 ^ (k % LimbBits) ELSE 0]

\* u64::MAX
U64Max == [i \in 1..U64Limbs |-> LimbBase - 1]

\* i64::MAX as a magnitude
I63Max ==
    [i \in 1..U64Limbs |->
        IF i = U64Limbs THEN (LimbBase \div 2) - 1 ELSE LimbBase - 1]

\* an i64: sign and magnitude
I64(n) == [neg |-> n < 0, mag |-> U64(IF n < 0 THEN -n ELSE n)]

I64Max == [neg |-> FALSE, mag |-> I63Max]

\* ------------------------------------------------------------------------
\* Collaborators of update that live in crate::libraries
\* ------------------------------------------------------------------------

\* liquidity_math::add_delta(x, y): x + y, or an arithmetic error when the
\* true result is negative or exceeds u64::MAX
add_delta(x, y) ==
    IF y.neg
    THEN IF BigLess(x, y.mag)
         THEN [ok |-> FALSE, val |-> x]
         ELSE [ok |-> TRUE, val |-> BigSubMod(x, y.mag, U64Limbs)]
    ELSE LET z == BigAdd(x, y.mag)
         IN  IF FitsU64(z)
             THEN [ok |-> TRUE, val |-> Trunc(z, U64Limbs)]
             ELSE [ok |-> FALSE, val |-> x]

\* a.mul_div_floor(b, fixed_point_32::Q32): floor(a * b / 2^32) through a
\* 128-bit intermediate; None when the quotient does not fit a u64
mul_div_floor(a, b) ==
    LET q == DivQ32(BigMul(a, b))
    IN  IF FitsU64(q)
        THEN [some |-> TRUE, val |-> Trunc(q, U64Limbs)]
        ELSE [some |-> FALSE, val |-> U64(0)]

\* ------------------------------------------------------------------------
\* PositionState::update, statement by statement
\* ------------------------------------------------------------------------

\* variant: the guard of a poke left out
PokeAllowed_always(liquidity) == TRUE

\* require!(self.liquidity > 0, ErrorCode::NP)
PokeAllowed(liquidity) == ~IsZero(liquidity)

\* variant: the error of add_delta swallowed instead of propagated by `?`
LiquidityNext_swallow(liquidity, liquidity_delta) ==
    IF IsZero(liquidity_delta.mag)
    THEN IF PokeAllowed(liquidity)
         THEN [result |-> "Ok", val |-> liquidity]
         ELSE [result |-> "NP", val |-> liquidity]
    ELSE [result |-> "Ok", val |-> add_delta(liquidity, liquidity_delta).val]

\* let liquidity_next = if liquidity_delta == 0 { .. } else { add_delta(..)? }
LiquidityNext(liquidity, liquidity_delta) ==
    IF IsZero(liquidity_delta.mag)
    THEN IF PokeAllowed(liquidity)
         THEN [result |-> "Ok", val |-> liquidity]
         ELSE [result |-> "NP", val |-> liquidity]
    ELSE LET r == add_delta(liquidity, liquidity_delta)
         IN  IF r.ok
             THEN [result |-> "Ok", val |-> r.val]
             ELSE [result |-> "ArithErr", val |-> liquidity]

\* the `-` of fee_growth_inside_X_x32 - self.fee_growth_inside_X_last_x32
\* overflows when the accumulator is below the snapshot: a build with
\* overflow checks panics there, a build without them wraps
SubOverflows(fee_growth_inside, fee_growth_inside_last) ==
    BigLess(fee_growth_inside, fee_growth_inside_last)

\* variant: the accumulator itself taken as the growth, the snapshot ignored
FeeGrowthDelta_absolute(fee_growth_inside, fee_growth_inside_last) ==
    fee_growth_inside

FeeGrowthDelta(fee_growth_inside, fee_growth_inside_last) ==
    BigSubMod(fee_growth_inside, fee_growth_inside_last, U64Limbs)

\* variant: the fee computed after the liquidity assignment
FeeLiquidity_post(liquidity, liquidity_next) == liquidity_next

\* the liquidity the fee computation multiplies by: self.liquidity, read
\* before the assignment self.liquidity = liquidity_next
FeeLiquidity(liquidity, liquidity_next) == liquidity

\* (fee_growth_inside_X_x32 - last).mul_div_floor(self.liquidity, Q32)
TokensOwed(fee_growth_inside, fee_growth_inside_last, liquidity) ==
    mul_div_floor(FeeGrowthDelta(fee_growth_inside, fee_growth_inside_last),
                  liquidity)

\* if liquidity_delta != 0 { self.liquidity = liquidity_next; }
CommitLiquidity(liquidity, liquidity_next, liquidity_delta) ==
    IF ~IsZero(liquidity_delta.mag) THEN liquidity_next ELSE liquidity

\* self.fee_growth_inside_X_last_x32 = fee_growth_inside_X_x32
NextSnapshot(fee_growth_inside, fee_growth_inside_last) == fee_growth_inside

\* if tokens_owed_0 > 0 || tokens_owed_1 > 0
CreditGuard(tokens_owed_0, tokens_owed_1) ==
    ~IsZero(tokens_owed_0) \/ ~IsZero(tokens_owed_1)

\* the `+=` of self.tokens_owed_X += tokens_owed_X overflows when the sum
\* exceeds u64::MAX: panic with overflow checks, wrap without
AddOverflows(owed, amount) == ~FitsU64(BigAdd(owed, amount))

AddOwed(owed, amount) == Trunc(BigAdd(owed, amount), U64Limbs)

\* if tokens_owed_0 > 0 || tokens_owed_1 > 0 { self.tokens_owed_0 += ..;
\* self.tokens_owed_1 += ..; }  Ok(())
\* s1 is the record after the assignments of liquidity and the snapshots.
Credit(s1, tokens_owed_0, tokens_owed_1, overflow_checks) ==
    IF ~CreditGuard(tokens_owed_0, tokens_owed_1)
    THEN [result |-> "Ok", self |-> s1]
    ELSE IF overflow_checks /\ AddOverflows(s1.tokens_owed_0, tokens_owed_0)
    THEN [result |-> "PanicAdd", self |-> s1]
    ELSE IF overflow_checks /\ AddOverflows(s1.tokens_owed_1, tokens_owed_1)
    THEN [result |-> "PanicAdd",
          self |-> [s1 EXCEPT !.tokens_owed_0 = AddOwed(@, tokens_owed_0)]]
    ELSE [result |-> "Ok",
          self |-> [s1 EXCEPT !.tokens_owed_0 = AddOwed(@, tokens_owed_0),
                              !.tokens_owed_1 = AddOwed(@, tokens_owed_1)]]

\* The method from the fee computation on: ln is liquidity_next, t0 and t1
\* the two mul_div_floor results before their unwrap.
Accrue(self, liquidity_delta, fee_growth_inside_0_x32, fee_growth_inside_1_x32, overflow_checks, ln, t0, t1) ==
    IF overflow_checks
       /\ SubOverflows(fee_growth_inside_0_x32, self.fee_growth_inside_0_last_x32)
    THEN [result |-> "PanicSub", self |-> self]
    ELSE IF ~t0.some THEN [result |-> "PanicMulDiv", self |-> self]
    ELSE IF overflow_checks
            /\ SubOverflows(fee_growth_inside_1_x32,
                            self.fee_growth_inside_1_last_x32)
    THEN [result |-> "PanicSub", self |-> self]
    ELSE IF ~t1.some THEN [result |-> "PanicMulDiv", self |-> self]
    ELSE Credit([self EXCEPT
                   !.liquidity = CommitLiquidity(@, ln, liquidity_delta),
                   !.fee_growth_inside_0_last_x32 =
                       NextSnapshot(fee_growth_inside_0_x32, @),
                   !.fee_growth_inside_1_last_x32 =
                       NextSnapshot(fee_growth_inside_1_x32, @)],
                t0.val, t1.val, overflow_checks)

\* The whole method.  self is the record, overflow_checks the build's
\* arithmetic mode.  The value is the outcome and the record as the method
\* leaves it: an error return or a panic before the first assignment leaves
\* the record as it was, a panic after it leaves the assignments made.
update(self, liquidity_delta, fee_growth_inside_0_x32, fee_growth_inside_1_x32, overflow_checks) ==
    LET ln == LiquidityNext(self.liquidity, liquidity_delta)
    IN  IF ln.result # "Ok" THEN [result |-> ln.result, self |-> self]
        ELSE Accrue(self, liquidity_delta, fee_growth_inside_0_x32,
                    fee_growth_inside_1_x32, overflow_checks, ln.val,
                    TokensOwed(fee_growth_inside_0_x32,
                               self.fee_growth_inside_0_last_x32,
                               FeeLiquidity(self.liquidity, ln.val)),
                    TokensOwed(fee_growth_inside_1_x32,
                               self.fee_growth_inside_1_last_x32,
                               FeeLiquidity(self.liquidity, ln.val)))

\* ------------------------------------------------------------------------
\* The state machine: one position record and its callers
\* ------------------------------------------------------------------------

\* calls made to one record in a behaviour
MaxCalls == 3

\* limbs of the running sums of accepted deltas
SumLimbs == 10

\* liquidity deltas the callers pass: a poke, a mint, a burn, the largest mint
Deltas == {I64(0), I64(1000), I64(-2000), I64Max}

\* fee-growth-inside accumulator pairs the pool supplies (Q32): each token's
\* accumulator advances, stalls and falls back
Growth == {<<U64(0), U64(0)>>, <<Pow2(28), U64(0)>>, <<Pow2(33), Pow2(33)>>,
           <<Pow2(33), Pow2(34)>>, <<Pow2(34), Pow2(34)>>}

Errors == {"NP", "ArithErr"}

Panics == {"PanicSub", "PanicMulDiv", "PanicAdd"}

VARIABLES
    liquidity,                      \* PositionState.liquidity
    fee_growth_inside_0_last_x32,   \* PositionState.fee_growth_inside_0_last_x32
    fee_growth_inside_1_last_x32,   \* PositionState.fee_growth_inside_1_last_x32
    tokens_owed_0,                  \* PositionState.tokens_owed_0
    tokens_owed_1,                  \* PositionState.tokens_owed_1
    overflow_checks,                \* the build: are `-` and `+=` checked
    result,                         \* outcome of the last call
    args,                           \* arguments of the last call
    pre,                            \* the record before the last call
    calls,                          \* number of calls made
    minted,                         \* sum of the accepted positive deltas
    burned,                         \* sum of the accepted negative deltas
    run0,                           \* token 0: the current run of pokes
    run1                            \* token 1: the current run of pokes

vars == <<liquidity, fee_growth_inside_0_last_x32,
          fee_growth_inside_1_last_x32, tokens_owed_0, tokens_owed_1,
          overflow_checks, result, args, pre, calls, minted, burned,
          run0, run1>>

Record == [liquidity |-> liquidity,
           fee_growth_inside_0_last_x32 |-> fee_growth_inside_0_last_x32,
           fee_growth_inside_1_last_x32 |-> fee_growth_inside_1_last_x32,
           tokens_owed_0 |-> tokens_owed_0,
           tokens_owed_1 |-> tokens_owed_1]

\* #[derive(Default)]: a zero-initialized record
ZeroRecord == [liquidity |-> U64(0),
               fee_growth_inside_0_last_x32 |-> U64(0),
               fee_growth_inside_1_last_x32 |-> U64(0),
               tokens_owed_0 |-> U64(0),
               tokens_owed_1 |-> U64(0)]

\* a run of consecutive pokes over one token's accumulator: how many, the
\* snapshot they started from, and what they credited in total
NoRun(start) == [n |-> 0, start |-> start, credit |-> Trunc(<<>>, SumLimbs)]

RunNext(run, res, delta, growth, last, owed, owedNext) ==
    IF res \in Errors \cup Panics THEN run
    ELSE IF IsZero(delta.mag) /\ BigLeq(last, growth)
         THEN [run EXCEPT
                 !.n = @ + 1,
                 !.credit = Trunc(BigAdd(@, BigSubMod(owedNext, owed, U64Limbs)),
                                  SumLimbs)]
         ELSE NoRun(growth)

Init ==
    /\ liquidity = ZeroRecord.liquidity
    /\ fee_growth_inside_0_last_x32 = ZeroRecord.fee_growth_inside_0_last_x32
    /\ fee_growth_inside_1_last_x32 = ZeroRecord.fee_growth_inside_1_last_x32
    /\ tokens_owed_0 = ZeroRecord.tokens_owed_0
    /\ tokens_owed_1 = ZeroRecord.tokens_owed_1
    /\ overflow_checks \in BOOLEAN
    /\ result = "Init"
    /\ args = [liquidity_delta |-> I64(0),
               fee_growth_inside_0_x32 |-> U64(0),
               fee_growth_inside_1_x32 |-> U64(0)]
    /\ pre = ZeroRecord
    /\ calls = 0
    /\ minted = Trunc(<<>>, SumLimbs)
    /\ burned = Trunc(<<>>, SumLimbs)
    /\ run0 = NoRun(U64(0))
    /\ run1 = NoRun(U64(0))

\* one call of update on the record; a panic ends the program
Update(liquidity_delta, fee_growth_inside_0_x32, fee_growth_inside_1_x32) ==
    /\ result \notin Panics
    /\ calls < MaxCalls
    /\ \E r \in {update(Record, liquidity_delta, fee_growth_inside_0_x32,
                        fee_growth_inside_1_x32, overflow_checks)} :
           /\ liquidity' = r.self.liquidity
           /\ fee_growth_inside_0_last_x32' = r.self.fee_growth_inside_0_last_x32
           /\ fee_growth_inside_1_last_x32' = r.self.fee_growth_inside_1_last_x32
           /\ tokens_owed_0' = r.self.tokens_owed_0
           /\ tokens_owed_1' = r.self.tokens_owed_1
           /\ result' = r.result
           /\ minted' = IF r.result = "Ok" /\ ~liquidity_delta.neg
                        THEN Trunc(BigAdd(minted, liquidity_delta.mag), SumLimbs)
                        ELSE minted
           /\ burned' = IF r.result = "Ok" /\ liquidity_delta.neg
                        THEN Trunc(BigAdd(burned, liquidity_delta.mag), SumLimbs)
                        ELSE burned
           /\ run0' = RunNext(run0, r.result, liquidity_delta,
                              fee_growth_inside_0_x32,
                              fee_growth_inside_0_last_x32,
                              tokens_owed_0, r.self.tokens_owed_0)
           /\ run1' = RunNext(run1, r.result, liquidity_delta,
                              fee_growth_inside_1_x32,
                              fee_growth_inside_1_last_x32,
                              tokens_owed_1, r.self.tokens_owed_1)
    /\ args' = [liquidity_delta |-> liquidity_delta,
                fee_growth_inside_0_x32 |-> fee_growth_inside_0_x32,
                fee_growth_inside_1_x32 |-> fee_growth_inside_1_x32]
    /\ pre' = Record
    /\ calls' = calls + 1
    /\ UNCHANGED overflow_checks

Next ==
    \E d \in Deltas, g \in Growth : Update(d, g[1], g[2])

Spec == Init /\ [][Next]_vars

\* ------------------------------------------------------------------------
\* Properties
\* ------------------------------------------------------------------------

Called == result # "Init"

IsPoke == IsZero(args.liquidity_delta.mag)

\* floor(((g - last) mod 2^64) * L / 2^32), exact: no truncation to 64 bits
FeeFloor(g, last, L) == DivQ32(BigMul(BigSubMod(g, last, U64Limbs), L))

Fee0 == FeeFloor(args.fee_growth_inside_0_x32,
                 pre.fee_growth_inside_0_last_x32, pre.liquidity)

Fee1 == FeeFloor(args.fee_growth_inside_1_x32,
                 pre.fee_growth_inside_1_last_x32, pre.liquidity)

\* what the last call added to each owed total, mod 2^64
Credited0 == BigSubMod(tokens_owed_0, pre.tokens_owed_0, U64Limbs)

Credited1 == BigSubMod(tokens_owed_1, pre.tokens_owed_1, U64Limbs)

\* the true value of liquidity + delta lies outside 0..2^64-1
DeltaOutOfRange ==
    IF args.liquidity_delta.neg
    THEN BigLess(pre.liquidity, args.liquidity_delta.mag)
    ELSE ~FitsU64(BigAdd(pre.liquidity, args.liquidity_delta.mag))

\* the last call got past the computation of liquidity_next
PastLiquidityNext ==
    /\ Called
    /\ IF IsPoke THEN ~IsZero(pre.liquidity) ELSE ~DeltaOutOfRange

\* C1: a successful update with a nonzero delta credits, for each token,
\* floor(((g - last) mod 2^64) * L / 2^32) with L the liquidity before the
\* call, not the liquidity after it.
C1_FeeUsesPreUpdateLiquidity ==
    (result = "Ok" /\ ~IsPoke) =>
        /\ BigEq(Credited0, Fee0)
        /\ BigEq(Credited1, Fee1)

\* a mint on a funded position that credited a fee which the liquidity after
\* the call would have computed differently
C1_Witness ==
    /\ result = "Ok"
    /\ ~IsPoke
    /\ ~IsZero(pre.liquidity)
    /\ ~IsZero(Credited0)
    /\ ~BigEq(Credited0, FeeFloor(args.fee_growth_inside_0_x32,
                                  pre.fee_growth_inside_0_last_x32, liquidity))

\* C2: from a zero-initialized record, in every reachable state the stored
\* liquidity is a u64 and equals the sum of the deltas of exactly the calls
\* that succeeded (mints minus burns); calls that did not succeed and pokes
\* contribute nothing.
C2_LiquidityIsSumOfAccepted ==
    /\ Len(liquidity) = U64Limbs
    /\ \A i \in 1..U64Limbs : liquidity[i] \in 0..(LimbBase - 1)
    /\ BigEq(BigAdd(liquidity, burned), minted)

\* C3: an update with a nonzero delta returns the arithmetic error exactly
\* when liquidity + delta is negative or above 2^64 - 1, and then all five
\* fields are as before the call.
C3_ArithErrorExactlyOutOfRange ==
    (Called /\ ~IsPoke) =>
        /\ (result = "ArithErr") <=> DeltaOutOfRange
        /\ result = "ArithErr" => Record = pre

\* a mint rejected for overflowing u64 on a record with fees already owed
C3_Witness ==
    /\ result = "ArithErr"
    /\ ~args.liquidity_delta.neg
    /\ ~IsZero(pre.tokens_owed_0)

\* C4: a poke on a position with zero liquidity returns NoLiquidity whatever
\* the accumulators and leaves the record unchanged; a poke on a position
\* with liquidity is never rejected with NoLiquidity.
C4_PokeOnEmptyRejected ==
    (Called /\ IsPoke) =>
        /\ IsZero(pre.liquidity) => (result = "NP" /\ Record = pre)
        /\ ~IsZero(pre.liquidity) => result # "NP"

\* a poke with nonzero accumulators rejected on an empty position
C4_Witness ==
    /\ result = "NP"
    /\ ~IsZero(args.fee_growth_inside_0_x32)
    /\ ~IsZero(args.fee_growth_inside_1_x32)

\* C5: when a fee amount does not fit 64 bits the call returns a typed
\* failure (it does not succeed and does not abort) and the record is as
\* before the call.
C5_ConversionFailureIsTyped ==
    (PastLiquidityNext /\ (~FitsU64(Fee0) \/ ~FitsU64(Fee1))) =>
        /\ result \in Errors
        /\ Record = pre

\* C6: when an accumulator is below its snapshot the subtraction does not
\* abort the call, and a call that succeeds credits the fee of the growth
\* (g - last + 2^64).
C6_SubtractionWraps ==
    (PastLiquidityNext
        /\ (\/ BigLess(args.fee_growth_inside_0_x32,
                       pre.fee_growth_inside_0_last_x32)
            \/ BigLess(args.fee_growth_inside_1_x32,
                       pre.fee_growth_inside_1_last_x32))) =>
        /\ result # "PanicSub"
        /\ result = "Ok" => (BigEq(Credited0, Fee0) /\ BigEq(Credited1, Fee1))

\* C7: the addition to the owed totals never aborts the call, and after a
\* successful call each owed total is (total before + fee) mod 2^64: both
\* are added to when a fee is positive, both unchanged when both are zero.
C7_OwedAddWraps ==
    /\ result # "PanicAdd"
    /\ result = "Ok" =>
        /\ tokens_owed_0 = Trunc(BigAdd(pre.tokens_owed_0, Fee0), U64Limbs)
        /\ tokens_owed_1 = Trunc(BigAdd(pre.tokens_owed_1, Fee1), U64Limbs)

\* C8: after a successful update both snapshots are the accumulators passed
\* in, whatever the delta and the fee; after every update that did not
\* succeed (an error return or an abort) both snapshots are as before.
C8_SnapshotAdvances ==
    /\ result = "Ok" =>
        /\ fee_growth_inside_0_last_x32 = args.fee_growth_inside_0_x32
        /\ fee_growth_inside_1_last_x32 = args.fee_growth_inside_1_x32
    /\ result \in Errors \cup Panics =>
        /\ fee_growth_inside_0_last_x32 = pre.fee_growth_inside_0_last_x32
        /\ fee_growth_inside_1_last_x32 = pre.fee_growth_inside_1_last_x32

\* C9: a poke whose accumulators equal the stored snapshots does not abort
\* and leaves liquidity, both snapshots and both owed totals as they were.
C9_PokeAtSnapshotCreditsNothing ==
    (/\ Called
     /\ IsPoke
     /\ args.fee_growth_inside_0_x32 = pre.fee_growth_inside_0_last_x32
     /\ args.fee_growth_inside_1_x32 = pre.fee_growth_inside_1_last_x32) =>
        /\ result \notin Panics
        /\ Record = pre

\* a successful poke repeating the nonzero accumulator of the call before
\* it, on a position that has been credited fees
C9_Witness ==
    /\ result = "Ok"
    /\ IsPoke
    /\ args.fee_growth_inside_0_x32 = pre.fee_growth_inside_0_last_x32
    /\ args.fee_growth_inside_1_x32 = pre.fee_growth_inside_1_last_x32
    /\ ~IsZero(args.fee_growth_inside_0_x32)
    /\ ~IsZero(tokens_owed_0)

\* what one poke from the start of the run to the current snapshot credits
Single0 == FeeFloor(fee_growth_inside_0_last_x32, run0.start, liquidity)

Single1 == FeeFloor(fee_growth_inside_1_last_x32, run1.start, liquidity)

\* C10: n successful pokes with non-decreasing accumulators on a position of
\* constant liquidity credit in total at most what a single poke to the last
\* accumulator credits, and fall short of it by less than n.
C10_SplitNeverOverCredits ==
    result \notin Panics =>
        /\ run0.n >= 1 =>
            /\ BigLeq(run0.credit, Single0)
            /\ BigLess(Single0, BigAdd(run0.credit, U64(run0.n)))
        /\ run1.n >= 1 =>
            /\ BigLeq(run1.credit, Single1)
            /\ BigLess(Single1, BigAdd(run1.credit, U64(run1.n)))

\* two pokes that together credited less than the single poke would have
C10_Witness ==
    /\ result = "Ok"
    /\ run0.n >= 2
    /\ BigLess(run0.credit, Single0)

====
